---- MODULE Spec2Model ----
(***************************************************************************)
(* Model of the catch-unwind crate (src/src/lib.rs): wrappers around       *)
(* std::panic::catch_unwind that contain a panic raised while the caught   *)
(* panic payload is dropped.                                               *)
(*                                                                         *)
(* A payload (or any dropped value) is an object with an identity and a    *)
(* finalizer.  The finalizer either completes or raises a new payload.     *)
(* Every library function is an operator from a machine record (the        *)
(* process' payload objects, finalizer run counts, leaked objects, abort   *)
(* flag) to an outcome: a normal return, an unwinding panic or an abort.   *)
(***************************************************************************)
EXTENDS Integers, Sequences, FiniteSets, TLC

\* ---------------------------------------------------------------- bounds
\* payload objects created in one run of the process
MaxPayloads == 3
\* longest finite chain: a value whose finalizer raises a value whose ...
MaxChain == 1
\* distinct results a unit of work can return
MaxResult == 2

\* the kind of tests::PanicOnDrop: its finalizer raises another PanicOnDrop
Endless == -1

Kinds == {Endless} \cup (0..MaxChain)
Results == 1..MaxResult
\* Option<Box<..>>::None inside a carrier
NoneSlot == 0

VARIABLES
    kind,      \* kind[p]: finalizer behaviour of payload object p
    fin,       \* fin[p]: how many times the finalizer of p has run
    forgot,    \* objects passed to mem::forget
    aborted,   \* process::abort was called
    carrier,   \* the Payload carrier the caller holds: [held, slot]
    raw,       \* unwrapped payload objects the caller owns
    last       \* what the last call did, as its caller observes it

vars == <<kind, fin, forgot, aborted, carrier, raw, last>>

\* ------------------------------------------------------------- outcomes
Machine == [kind |-> kind, fin |-> fin, forgot |-> forgot,
            aborted |-> aborted, hlog |-> <<>>, unreach |-> FALSE]

Ret(m, v) == [m |-> m, out |-> "ret", v |-> v]
Unwind(m, p) == [m |-> m, out |-> "unwind", v |-> p]

Val(tag, v) == [tag |-> tag, v |-> v]
Unit == Val("Unit", 0)

\* std::process::abort: terminates the process, never returns
abort(m) == [m |-> [m EXCEPT !.aborted = TRUE], out |-> "abort", v |-> 0]

\* std::panic::panic_any(value): a new payload object starts unwinding
panic_any(m, k) ==
    Unwind([m EXCEPT !.kind = Append(@, k), !.fin = Append(@, 0)],
           Len(m.kind) + 1)

\* std::panic::resume_unwind(payload): unwinding with an existing payload
resume_unwind(m, p) == Unwind(m, p)

\* what the finalizer of a kind-k object raises
RaisedKind(k) == IF k = Endless THEN Endless ELSE k - 1

\* std::mem::drop(value): runs the finalizer of the object
mem_drop(m, p) ==
    LET m1 == [m EXCEPT !.fin[p] = @ + 1]
    IN  IF m.kind[p] = 0 THEN Ret(m1, 0)
        ELSE panic_any(m1, RaisedKind(m.kind[p]))

\* std::mem::forget(value): the finalizer is never run
mem_forget(m, p) == Ret([m EXCEPT !.forgot = @ \cup {p}], 0)

\* std::panic::catch_unwind applied to the outcome of the closure body
catch_unwind(res) ==
    CASE res.out = "ret"    -> Ret(res.m, Val("Ok", res.v))
      [] res.out = "unwind" -> Ret(res.m, Val("Err", res.v))
      [] OTHER              -> res

\* a unit of work: returns x, or panics with a fresh payload of kind x
Work == [type : {"ret"}, x : Results] \cup [type : {"panic"}, x : Kinds]

run(m, w) == IF w.type = "ret" THEN Ret(m, w.x) ELSE panic_any(m, w.x)

\* ---------------------------------------------------- guarded disposal
\* the closures a caller can pass to drop_or_else as or_else
Handlers == {"abort", "forget", "keep", "drop", "resume"}

\* or_else(payload): the closure body, after the call is logged
ApplyHandler(h, m, p) ==
    LET m1 == [m EXCEPT !.hlog = Append(@, p)]
    IN  CASE h = "abort"  -> abort(m1)
          [] h = "forget" -> mem_forget(m1, p)
          [] h = "keep"   -> Ret(m1, p)
          [] h = "drop"   -> mem_drop(m1, p)
          [] OTHER        -> resume_unwind(m1, p)

\* drop_or_else without its boundary: the value is dropped directly
drop_or_else_NoBoundary(m, value, or_else) ==
    LET c == mem_drop(m, value)
    IN  IF c.out = "ret" THEN Ret(c.m, Val("Ok", 0)) ELSE c

\* drop_or_else(value, or_else) -> Result<(), E>
drop_or_else(m, value, or_else) ==
    LET c == catch_unwind(mem_drop(m, value))
    IN  IF c.v.tag = "Ok" THEN Ret(c.m, Val("Ok", 0))
        ELSE LET e == ApplyHandler(or_else, c.m, c.v.v)
             IN  IF e.out = "ret" THEN Ret(e.m, Val("Err", e.v)) ELSE e

\* drop_or_abort that forgets the secondary payload instead of aborting
drop_or_abort_Forgets(m, value) ==
    LET d == drop_or_else(m, value, "forget")
    IN  IF d.out = "ret" THEN Ret(d.m, Unit) ELSE d

\* drop_or_abort(value): let _ = drop_or_else(value, |_err| abort())
drop_or_abort(m, value) ==
    LET d == drop_or_else(m, value, "abort")
    IN  IF d.out = "ret" THEN Ret(d.m, Unit) ELSE d

\* drop_or_forget that drops the value outside any boundary
drop_or_forget_Unguarded(m, value) ==
    LET d == mem_drop(m, value)
    IN  IF d.out = "ret" THEN Ret(d.m, Unit) ELSE d

\* drop_or_forget that drops the secondary payload instead of forgetting it
drop_or_forget_Drops(m, value) ==
    LET d == drop_or_else(m, value, "drop")
    IN  IF d.out = "ret" THEN Ret(d.m, Unit) ELSE d

\* drop_or_forget(value): let _ = drop_or_else(value, mem::forget)
drop_or_forget(m, value) ==
    LET d == drop_or_else(m, value, "forget")
    IN  IF d.out = "ret" THEN Ret(d.m, Unit) ELSE d

\* ------------------------------------------------------ the carrier
\* Payload(Option<Box<dyn Any + Send>>)
\* orig remembers the object the carrier was built around
Payload(slot) == [held |-> TRUE, slot |-> slot, orig |-> slot]
\* the caller holds no carrier (none made yet, or moved into a method)
NoCarrier == [held |-> FALSE, slot |-> NoneSlot, orig |-> NoneSlot]

\* unreachable!(): panics with a message, whose finalizer completes
unreachable(m) == panic_any([m EXCEPT !.unreach = TRUE], 0)

\* Option::unwrap on None: panics with a message, whose finalizer completes
unwrap_none(m) == panic_any(m, 0)

\* a destructor that drops the payload outside any boundary
Payload_drop_Unguarded(m, c) ==
    IF c.slot # NoneSlot
    THEN LET d == mem_drop(m, c.slot)
         IN  IF d.out = "ret" THEN Ret(d.m, Unit) ELSE d
    ELSE Ret(m, Unit)

\* <Payload as Drop>::drop(&mut self)
Payload_drop(m, c) ==
    IF c.slot # NoneSlot THEN drop_or_abort(m, c.slot) ELSE Ret(m, Unit)

\* Payload::get(&self)
Payload_get(m, c) ==
    IF c.slot = NoneSlot THEN unreachable(m) ELSE Ret(m, Val("Ref", c.slot))

\* Payload::get_mut(&mut self)
Payload_get_mut(m, c) ==
    IF c.slot = NoneSlot THEN unreachable(m) ELSE Ret(m, Val("RefMut", c.slot))

\* into_inner that copies the payload out and leaves it in the carrier
into_inner_NoTake(m, c) ==
    LET taken == c.slot
        d     == Payload_drop(m, c)
    IN  IF taken = NoneSlot THEN unwrap_none(d.m)
        ELSE IF d.out = "ret" THEN Ret(d.m, taken) ELSE d

\* Payload::into_inner(mut self): self.0.take().unwrap(), then self is dropped
into_inner(m, c) ==
    LET taken == c.slot
        self  == [c EXCEPT !.slot = NoneSlot]
        d     == Payload_drop(m, self)
    IN  IF taken = NoneSlot THEN unwrap_none(d.m)
        ELSE IF d.out = "ret" THEN Ret(d.m, taken) ELSE d

\* Payload::drop_or_abort(self)
Payload_drop_or_abort(m, c) ==
    LET i == into_inner(m, c)
    IN  IF i.out = "ret" THEN drop_or_abort(i.m, i.v) ELSE i

\* Payload::drop_or_forget that leaves the payload in the carrier, whose
\* destructor then runs on it
Payload_drop_or_forget_NoConsume(m, c) ==
    LET d == drop_or_forget(m, c.slot)
    IN  IF d.out = "ret" THEN Payload_drop(d.m, c) ELSE d

\* Payload::drop_or_forget(self)
Payload_drop_or_forget(m, c) ==
    LET i == into_inner(m, c)
    IN  IF i.out = "ret" THEN drop_or_forget(i.m, i.v) ELSE i

\* Payload::resume_unwind that leaves the payload in the carrier, whose
\* destructor runs on it while the panic unwinds
Payload_resume_unwind_NoConsume(m, c) ==
    LET d == Payload_drop(m, c)
    IN  IF d.out = "ret" THEN resume_unwind(d.m, c.slot) ELSE d

\* Payload::resume_unwind(self)
Payload_resume_unwind(m, c) ==
    LET i == into_inner(m, c)
    IN  IF i.out = "ret" THEN resume_unwind(i.m, i.v) ELSE i

\* ------------------------------------------------- boundary capture
\* catch_unwind_or_abort that loses the result of the work
catch_unwind_or_abort_LosesResult(m, w) ==
    LET c == catch_unwind(run(m, w))
    IN  IF c.v.tag = "Ok" THEN Ret(c.m, Val("None", 0))
        ELSE LET d == drop_or_abort(c.m, c.v.v)
             IN  IF d.out = "ret" THEN Ret(d.m, Val("None", 0)) ELSE d

\* catch_unwind_or_abort(f) -> Option<R>
catch_unwind_or_abort(m, w) ==
    LET c == catch_unwind(run(m, w))
    IN  IF c.v.tag = "Ok" THEN Ret(c.m, Val("Some", c.v.v))
        ELSE LET d == drop_or_abort(c.m, c.v.v)
             IN  IF d.out = "ret" THEN Ret(d.m, Val("None", 0)) ELSE d

\* catch_unwind_or_forget(f) -> Option<R>
catch_unwind_or_forget(m, w) ==
    LET c == catch_unwind(run(m, w))
    IN  IF c.v.tag = "Ok" THEN Ret(c.m, Val("Some", c.v.v))
        ELSE LET d == drop_or_forget(c.m, c.v.v)
             IN  IF d.out = "ret" THEN Ret(d.m, Val("None", 0)) ELSE d

\* catch_unwind_wrapped(f) -> Result<R, Payload>
catch_unwind_wrapped(m, w) ==
    LET c == catch_unwind(run(m, w))
    IN  IF c.v.tag = "Ok" THEN Ret(c.m, Val("Ok", c.v.v))
        ELSE Ret(c.m, Val("ErrPayload", c.v.v))

\* ------------------------------------------------------ the process
RECURSIVE SumSeq(_)
SumSeq(s) == IF s = <<>> THEN 0 ELSE Head(s) + SumSeq(Tail(s))

NoCall == [op |-> "init", arg |-> 0, h |-> "none", out |-> "ret",
           tag |-> "Unit", v |-> 0, hlog |-> <<>>, unreach |-> FALSE,
           runs |-> 0, made |-> 0, slot |-> NoneSlot, orig |-> NoneSlot]

\* the caller observes the outcome of a call made from inside its own
\* enclosing catch_unwind; `keeps` is the carrier it holds afterwards,
\* `lost` and `gained` the unwrapped payloads it gave away and received
Observe(op, arg, h, res, keeps, lost, gained) ==
    /\ Len(res.m.kind) <= MaxPayloads
    /\ kind' = res.m.kind
    /\ fin' = res.m.fin
    /\ forgot' = res.m.forgot
    /\ aborted' = res.m.aborted
    /\ carrier' = keeps
    /\ raw' = (raw \ lost) \cup gained
    /\ last' = [op |-> op, arg |-> arg, h |-> h, out |-> res.out,
                tag |-> IF res.out = "ret" THEN res.v.tag ELSE "NoValue",
                v |-> IF res.out = "ret" THEN res.v.v ELSE res.v,
                hlog |-> res.m.hlog, unreach |-> res.m.unreach,
                runs |-> SumSeq(res.m.fin) - SumSeq(fin),
                made |-> Len(res.m.kind) - Len(kind),
                slot |-> carrier.slot, orig |-> carrier.orig]

\* a panic that leaves the call is caught by the caller's boundary
Caught(res) == IF res.out = "unwind" THEN {res.v} ELSE {}

Init ==
    /\ kind = <<>>
    /\ fin = <<>>
    /\ forgot = {}
    /\ aborted = FALSE
    /\ carrier = NoCarrier
    /\ raw = {}
    /\ last = NoCall

\* the caller builds a value of its own (such as tests::PanicOnDrop)
MakeValue(k) ==
    /\ ~aborted
    /\ LET res == panic_any(Machine, k)
       IN  Observe("make", k, "none", Ret(res.m, Val("Box", res.v)),
                   carrier, {}, {res.v})

CallCatchUnwindOrAbort(w) ==
    /\ ~aborted
    /\ LET res == catch_unwind_or_abort(Machine, w)
       IN  Observe("catch_unwind_or_abort", w.x, w.type, res, carrier,
                   {}, Caught(res))

CallCatchUnwindOrForget(w) ==
    /\ ~aborted
    /\ LET res == catch_unwind_or_forget(Machine, w)
       IN  Observe("catch_unwind_or_forget", w.x, w.type, res, carrier,
                   {}, Caught(res))

CallCatchUnwindWrapped(w) ==
    /\ ~aborted
    /\ ~carrier.held
    /\ LET res == catch_unwind_wrapped(Machine, w)
       IN  Observe("catch_unwind_wrapped", w.x, w.type, res,
                   IF res.out = "ret" /\ res.v.tag = "ErrPayload"
                   THEN Payload(res.v.v) ELSE carrier,
                   {}, Caught(res))

CallDropOrElse(p, h) ==
    /\ ~aborted
    /\ p \in raw
    /\ LET res == drop_or_else(Machine, p, h)
       IN  Observe("drop_or_else", p, h, res, carrier, {p},
                   Caught(res) \cup
                   (IF res.out = "ret" /\ res.v.tag = "Err" /\ h = "keep"
                    THEN {res.v.v} ELSE {}))

CallDropOrAbort(p) ==
    /\ ~aborted
    /\ p \in raw
    /\ LET res == drop_or_abort(Machine, p)
       IN  Observe("drop_or_abort", p, "none", res, carrier, {p}, Caught(res))

CallDropOrForget(p) ==
    /\ ~aborted
    /\ p \in raw
    /\ LET res == drop_or_forget(Machine, p)
       IN  Observe("drop_or_forget", p, "none", res, carrier, {p}, Caught(res))

CallGet ==
    /\ ~aborted
    /\ carrier.held
    /\ LET res == Payload_get(Machine, carrier)
       IN  Observe("get", carrier.slot, "none", res, carrier, {}, Caught(res))

CallGetMut ==
    /\ ~aborted
    /\ carrier.held
    /\ LET res == Payload_get_mut(Machine, carrier)
       IN  Observe("get_mut", carrier.slot, "none", res, carrier, {},
                   Caught(res))

\* get_mut, then the caller writes through the returned reference: the
\* reference is to the carrier's Box itself (as dyn Any), so mem::replace
\* on its downcast puts a value of kind k in the carrier and hands the
\* payload that was there to the caller
CallGetMutReplace(k) ==
    /\ ~aborted
    /\ carrier.held
    /\ LET res == Payload_get_mut(Machine, carrier)
           new == panic_any(res.m, k)
       IN  IF res.out = "ret"
           THEN Observe("get_mut_replace", carrier.slot, "none",
                        Ret(new.m, Val("Box", carrier.slot)),
                        [carrier EXCEPT !.slot = new.v], {}, {carrier.slot})
           ELSE Observe("get_mut_replace", carrier.slot, "none", res,
                        carrier, {}, Caught(res))

CallIntoInner ==
    /\ ~aborted
    /\ carrier.held
    /\ LET res == into_inner(Machine, carrier)
       IN  Observe("into_inner", carrier.slot, "none",
                   IF res.out = "ret" THEN Ret(res.m, Val("Box", res.v))
                   ELSE res,
                   NoCarrier, {},
                   IF res.out = "abort" THEN {} ELSE {res.v})

CallPayloadDropOrAbort ==
    /\ ~aborted
    /\ carrier.held
    /\ LET res == Payload_drop_or_abort(Machine, carrier)
       IN  Observe("Payload::drop_or_abort", carrier.slot, "none", res,
                   NoCarrier, {}, Caught(res))

CallPayloadDropOrForget ==
    /\ ~aborted
    /\ carrier.held
    /\ LET res == Payload_drop_or_forget(Machine, carrier)
       IN  Observe("Payload::drop_or_forget", carrier.slot, "none", res,
                   NoCarrier, {}, Caught(res))

CallPayloadResumeUnwind ==
    /\ ~aborted
    /\ carrier.held
    /\ LET res == Payload_resume_unwind(Machine, carrier)
       IN  Observe("Payload::resume_unwind", carrier.slot, "none", res,
                   NoCarrier, {}, Caught(res))

\* the carrier goes out of scope in the caller
DropCarrier ==
    /\ ~aborted
    /\ carrier.held
    /\ LET res == Payload_drop(Machine, carrier)
       IN  Observe("drop", carrier.slot, "none", res, NoCarrier, {},
                   Caught(res))

Next ==
    \/ \E k \in Kinds : MakeValue(k)
    \/ \E w \in Work : CallCatchUnwindOrAbort(w)
    \/ \E w \in Work : CallCatchUnwindOrForget(w)
    \/ \E w \in Work : CallCatchUnwindWrapped(w)
    \/ \E p \in raw, h \in Handlers : CallDropOrElse(p, h)
    \/ \E p \in raw : CallDropOrAbort(p)
    \/ \E p \in raw : CallDropOrForget(p)
    \/ CallGet
    \/ CallGetMut
    \/ \E k \in Kinds : CallGetMutReplace(k)
    \/ CallIntoInner
    \/ CallPayloadDropOrAbort
    \/ CallPayloadDropOrForget
    \/ CallPayloadResumeUnwind
    \/ DropCarrier

Spec == Init /\ [][Next]_vars

\* ------------------------------------------------------ properties
Captures == {"catch_unwind_or_abort", "catch_unwind_or_forget",
             "catch_unwind_wrapped"}
Consuming == {"into_inner", "Payload::drop_or_abort",
              "Payload::drop_or_forget", "Payload::resume_unwind"}

\* the payload raised by the finalizer that the last call ran first
Secondary == Len(kind) - last.made + 1

\* the finalizer of payload object p raises
FinRaises(p) == kind[p] # 0

\* C1: when the work completes normally with r, each capture variant
\* returns Some(r) / Ok(r); no payload and no carrier is constructed, no
\* finalizer and no handler runs, and the process is not aborted.
C1_NormalWorkReturnsResult ==
    (last.op \in Captures /\ last.h = "ret") =>
        /\ last.out = "ret"
        /\ last.tag = (IF last.op = "catch_unwind_wrapped" THEN "Ok"
                       ELSE "Some")
        /\ last.v = last.arg
        /\ last.made = 0
        /\ last.runs = 0
        /\ last.hlog = <<>>
        /\ carrier.slot = last.slot
        /\ (last.op = "catch_unwind_wrapped" => ~carrier.held)
        /\ ~aborted

C1_Witness ==
    /\ last.op = "catch_unwind_wrapped"
    /\ last.h = "ret"
    /\ last.tag = "Ok"
    /\ last.v = MaxResult

\* C2: catch_unwind_or_forget always returns: Some(r) iff the work
\* completed, None iff it panicked, whatever the payload's finalizer does;
\* it never aborts and no panic leaves it.
C2_ForgetAlwaysReturns ==
    last.op = "catch_unwind_or_forget" =>
        /\ last.out = "ret"
        /\ ~aborted
        /\ last.tag \in {"Some", "None"}
        /\ (last.tag = "Some" <=> last.h = "ret")
        /\ (last.tag = "None" <=> last.h = "panic")
        /\ (last.tag = "Some" => last.v = last.arg)

C2_Witness ==
    /\ last.op = "catch_unwind_or_forget"
    /\ last.h = "panic"
    /\ last.arg = Endless
    /\ last.tag = "None"
    /\ kind[Len(kind)] = Endless
    /\ Len(kind) \in forgot

\* C3: when the work panics, catch_unwind_or_abort returns None without
\* aborting if the payload's finalizer completes, and aborts the process
\* without returning or unwinding if the payload's finalizer raises.
C3_AbortPolicyOnCapture ==
    (last.op = "catch_unwind_or_abort" /\ last.h = "panic") =>
        /\ last.runs = 1
        /\ (last.arg = 0 =>
                last.out = "ret" /\ last.tag = "None" /\ ~aborted)
        /\ (last.arg # 0 => last.out = "abort" /\ aborted)

C3_Witness ==
    /\ last.op = "catch_unwind_or_abort"
    /\ last.h = "panic"
    /\ last.arg = Endless
    /\ aborted

\* C4: drop_or_else(value, handler) returns Ok(()) without calling the
\* handler when the finalizer of value completes; when it raises, the
\* handler is called exactly once, with the payload the finalizer raised,
\* and a handler that returns e makes the call return Err(e); a panic
\* leaves the call only when the handler itself raised it.
C4_DropOrElse ==
    last.op = "drop_or_else" =>
        /\ last.runs >= 1 /\ fin[last.arg] = 1
        /\ (~FinRaises(last.arg) =>
                /\ last.out = "ret" /\ last.tag = "Ok"
                /\ last.hlog = <<>>)
        /\ (FinRaises(last.arg) =>
                /\ last.hlog = <<Secondary>>
                /\ kind[Secondary] = RaisedKind(kind[last.arg])
                /\ (last.h = "keep" =>
                        /\ last.out = "ret" /\ last.tag = "Err"
                        /\ last.v = Secondary)
                /\ (last.h = "forget" =>
                        /\ last.out = "ret" /\ last.tag = "Err"
                        /\ last.v = 0)
                /\ (last.h = "drop" /\ ~FinRaises(Secondary) =>
                        /\ last.out = "ret" /\ last.tag = "Err"
                        /\ last.v = 0)
                /\ (last.h = "abort" => last.out = "abort")
                /\ (last.out = "unwind" => last.h \in {"drop", "resume"}))

C4_Witness ==
    /\ last.op = "drop_or_else"
    /\ last.h = "keep"
    /\ FinRaises(last.arg)
    /\ last.tag = "Err"
    /\ last.v \in raw

\* C5: dropping a carrier that still holds its payload is drop_or_abort of
\* that payload: the finalizer runs once inside a boundary, the process is
\* aborted iff it raises, and no panic leaves the destructor.
C5_DropIsDropOrAbort ==
    [][last'.op = "drop" =>
        LET r == drop_or_abort(Machine, carrier.slot)
        IN  /\ carrier.slot # NoneSlot
            /\ kind' = r.m.kind
            /\ fin' = r.m.fin
            /\ forgot' = r.m.forgot
            /\ aborted' = r.m.aborted
            /\ last'.out = r.out
            /\ last'.out # "unwind"
            /\ fin'[carrier.slot] = fin[carrier.slot] + 1
            /\ last'.runs = 1
            /\ (aborted' <=> FinRaises(carrier.slot))]_vars

C5_Witness ==
    /\ last.op = "drop"
    /\ kind[last.slot] = Endless
    /\ aborted

\* C6: a carrier the caller holds is in the "payload present" state; a
\* consuming call leaves the caller without the carrier; the destructor
\* of the consumed carrier runs no finalizer; unreachable!() is never
\* executed; and no payload's finalizer ever runs twice.
C6_ConsumedAtMostOnce ==
    /\ \A p \in 1..Len(kind) : fin[p] <= 1
    /\ ~last.unreach
    /\ (carrier.held =>
            /\ carrier.slot \in 1..Len(kind)
            /\ fin[carrier.slot] = 0
            /\ carrier.slot \notin forgot
            /\ carrier.slot \notin raw)
    /\ (last.op \in Consuming =>
            /\ ~carrier.held
            /\ last.slot # NoneSlot
            /\ last.runs <= 1)
    /\ (last.op = "into_inner" =>
            /\ last.out = "ret" /\ last.tag = "Box" /\ last.v = last.slot
            /\ last.runs = 0 /\ ~aborted
            /\ fin[last.v] = 0)

C6_Witness ==
    /\ last.op = "into_inner"
    /\ last.v \in raw
    /\ kind[last.v] = Endless

\* C7: Payload::resume_unwind does not return; the panic that leaves it
\* carries the payload the work originally raised (the one the carrier was
\* built around); that payload is not finalized, the process is not
\* aborted, and the enclosing boundary catches it.
C7_ResumeUnwind ==
    /\ (last.op = "Payload::resume_unwind" =>
            /\ last.out = "unwind"
            /\ last.v = last.orig
            /\ last.v \in raw
            /\ last.runs = 0 /\ last.made = 0
            /\ fin[last.v] = 0
            /\ ~aborted
            /\ ~carrier.held)
    /\ (last.op = "catch_unwind_wrapped" /\ last.h = "panic" =>
            /\ last.out = "ret" /\ last.tag = "ErrPayload"
            /\ carrier = Payload(Len(kind))
            /\ last.v = carrier.orig
            /\ kind[carrier.orig] = last.arg
            /\ last.made = 1 /\ last.runs = 0)

\* C8: Payload::drop_or_forget returns normally for every payload: the
\* payload's finalizer runs once, what it raises is forgotten, no panic
\* leaves the call, and the process is not aborted.
C8_PayloadDropOrForget ==
    last.op = "Payload::drop_or_forget" =>
        /\ last.out = "ret"
        /\ ~aborted
        /\ ~carrier.held
        /\ last.runs = 1
        /\ fin[last.slot] = 1
        /\ (FinRaises(last.slot) =>
                /\ last.made = 1
                /\ Secondary \in forgot
                /\ fin[Secondary] = 0)
        /\ (~FinRaises(last.slot) => last.made = 0)

C8_Witness ==
    /\ last.op = "Payload::drop_or_forget"
    /\ kind[last.slot] = Endless
    /\ last.out = "ret"

\* C10: when the finalizer of P1 raises P2, drop_or_forget(P1) returns
\* with P2 forgotten and drop_or_abort(P1) aborts; in both exactly one
\* finalizer (P1's) has run and P2's finalizer never runs.
C10_SecondaryNeverFinalized ==
    /\ \A p \in forgot : fin[p] = 0 /\ p \notin raw
    /\ (last.op = "drop_or_forget" /\ FinRaises(last.arg) =>
            /\ last.out = "ret" /\ ~aborted
            /\ last.runs = 1 /\ fin[last.arg] = 1
            /\ last.made = 1
            /\ fin[Secondary] = 0
            /\ Secondary \in forgot)
    /\ (last.op = "drop_or_abort" /\ FinRaises(last.arg) =>
            /\ last.out = "abort" /\ aborted
            /\ last.runs = 1 /\ fin[last.arg] = 1
            /\ last.made = 1
            /\ fin[Secondary] = 0)

C10_Witness ==
    /\ last.op = "drop_or_forget"
    /\ kind[last.arg] = 1
    /\ kind[Secondary] = 0
    /\ Secondary \in forgot
    /\ last.out = "ret"

====
